---- MODULE Spec2Model ----
(***************************************************************************)
(* A model of the work-already Client (lib/client.js): the action          *)
(* dispatcher, the HTTP actions, unload, getStatic, the Socket.IO connect  *)
(* action (socket), emit and awaitEmit, together with the environment they *)
(* talk to (the HTTP server, the Socket.IO server, the timers of the event *)
(* loop), and of the ScriptedClient (lib/scriptedClient.js) that runs a     *)
(* script of actions over it.                                              *)
(*                                                                         *)
(* JavaScript runs every handler to completion, so every handler is a pure *)
(* operator from a client state (a record of all the variables) to the     *)
(* client state it leaves behind, callbacks included; an action of the     *)
(* model is one turn of the event loop.                                    *)
(***************************************************************************)
EXTENDS Integers, Sequences, FiniteSets, TLC

\* ------------------------------------------------------------------ bounds
\* Number of calls of client.action() the caller makes once it has loaded a
\* page and opened a socket.
MaxActions == 2
\* The clock stops here.
MaxTime == 3
\* Largest timeout an action is given (in ticks of the clock).
MaxTimeout == 2
\* Number of events the Socket.IO server sends down.
MaxEmits == 2
\* Number of calls of runScript().
MaxRuns == 3
\* Number of scripts a caller runs one after the other.
MaxSeries == 2

\* ------------------------------------------------------------- value sets
\* undefined / absent is the empty tuple, a present value x is <<x>>.
Undefined == <<>>
Some(x) == <<x>>

\* config.sockets.defaultNamespace
DefaultNamespace == ""
Namespaces == {"", "/chat"}
EventTypes == {"E", "F"}

\* A body is the sequence of its tokens: plain text, or the value of a quoted
\* href= / src= attribute.  The empty sequence is the empty string.
UndefBody == <<"?undefined">>
Uris == {"/s.css", "/t.js", "/w.png", "http://x/u.js", "/v.html"}

\* The error values callbacks are called with.
NoError == {"null", "undefined"}

\* --------------------------------------------------------------- variables
VARIABLES
  page,         \* this.page: Undefined or Some([statusCode, body, socketsDefined, sockets])
  ajax,         \* this.ajax: Undefined or Some([statusCode, body])
  socketEvent,  \* this.socketEvent: Undefined or Some([namespace, eventType, args])
  staticData,   \* this.staticData: uri -> Undefined or Some(body)
  jar,          \* this.jar: the cookies held
  socks,        \* the namespace objects io.connect() has returned, by identity
  timers,       \* the timers set and neither fired nor cleared
  inflight,     \* the HTTP requests awaiting their response
  gstatic,      \* the runs of async.forEach in _getStatic
  acts,         \* the actions the caller has dispatched, in order
  calls,        \* per dispatched action: the (error, data) pairs its callback got
  net,          \* the I/O issued: requests, connects, emits
  thrown,       \* the exceptions thrown out of a turn
  emits,        \* the events the server has sent down, as they arrived
  script,       \* this.script: Undefined or Some(the script under way)
  scriptInProgress,  \* this.scriptInProgress
  runs,         \* the calls of runScript, each with the state of its series
  scalls,       \* per call of runScript: the errors its callback got
  now           \* the clock

vars == <<page, ajax, socketEvent, staticData, jar, socks, timers, inflight,
          gstatic, acts, calls, net, thrown, emits, script, scriptInProgress,
          runs, scalls, now>>

\* The client state as one value.
Cur ==
  [page |-> page, ajax |-> ajax, socketEvent |-> socketEvent,
   staticData |-> staticData, jar |-> jar, socks |-> socks, timers |-> timers,
   inflight |-> inflight, gstatic |-> gstatic, acts |-> acts, calls |-> calls,
   net |-> net, thrown |-> thrown, emits |-> emits, script |-> script,
   scriptInProgress |-> scriptInProgress, runs |-> runs, scalls |-> scalls,
   now |-> now]

Commit(s) ==
  /\ page' = s.page
  /\ ajax' = s.ajax
  /\ socketEvent' = s.socketEvent
  /\ staticData' = s.staticData
  /\ jar' = s.jar
  /\ socks' = s.socks
  /\ timers' = s.timers
  /\ inflight' = s.inflight
  /\ gstatic' = s.gstatic
  /\ acts' = s.acts
  /\ calls' = s.calls
  /\ net' = s.net
  /\ thrown' = s.thrown
  /\ emits' = s.emits
  /\ script' = s.script
  /\ scriptInProgress' = s.scriptInProgress
  /\ runs' = s.runs
  /\ scalls' = s.scalls
  /\ now' = s.now

NoSockets == [n \in Namespaces |-> 0]

\* ------------------------------------------------------------------ clear
\* Client.prototype.clear, which the constructor calls.
clear(s) ==
  [s EXCEPT !.jar = {}, !.page = Undefined, !.ajax = Undefined,
            !.socketEvent = Undefined,
            !.staticData = [u \in Uris |-> Undefined]]

Init ==
  /\ page = Undefined
  /\ ajax = Undefined
  /\ socketEvent = Undefined
  /\ staticData = [u \in Uris |-> Undefined]
  /\ jar = {}
  /\ socks = <<>>
  /\ timers = {}
  /\ inflight = {}
  /\ gstatic = <<>>
  /\ acts = <<>>
  /\ calls = <<>>
  /\ net = <<>>
  /\ thrown = <<>>
  /\ emits = <<>>
  /\ script = Undefined
  /\ scriptInProgress = FALSE
  /\ runs = <<>>
  /\ scalls = <<>>
  /\ now = 0

\* ------------------------------------------------------------ small helpers
Truthy(v) == v # Undefined /\ v[1] # <<>>

\* The continuation a handler is given as its callback: the caller's own
\* callback of dispatched action number id, or the per-file callback of run
\* number id of _getStatic for the file uri.
UserK(id) == [kind |-> "user", id |-> id, uri |-> ""]
StaticK(g, u) == [kind |-> "static", id |-> g, uri |-> u]

\* An action definition, with every field the handlers read.  type "" is a
\* missing type, path "" a missing path, method "" a missing method, timeout 0
\* a missing timeout (setTimeout with an undefined delay is due at the next
\* turn of the timers), socketConfig <<>> a missing socketConfig; str says
\* the caller passed the bare string path instead of an object; match names
\* the predicate of a confirmNoMatchingEmit; sync is the transport's answer to
\* namespace.socket.connected right after connect().
BlankAction ==
  [type |-> "", str |-> FALSE, path |-> "", method |-> "", ajax |-> FALSE,
   discardResponse |-> FALSE, namespace |-> "", eventType |-> "",
   timeout |-> 1, args |-> <<>>, cache |-> TRUE, match |-> "",
   sync |-> FALSE, socketConfig |-> <<>>]

NetOp(op, what, flag) == [op |-> op, what |-> what, flag |-> flag]

Listener(event, kind, k) == [event |-> event, kind |-> kind, k |-> k]
\* A timer: chan is the socket it is about or, for the sleep before an action
\* of a script, the position of that action in the script.
Timer(kind, k, chan, event, deadline) ==
  [kind |-> kind, k |-> k, chan |-> chan, event |-> event, deadline |-> deadline]

Throw(s, what) == [s EXCEPT !.thrown = Append(@, what)]

\* The callback async.forEachSeries hands to the iterator of run number id of
\* runScript.
ScriptK(id) == [kind |-> "script", id |-> id, uri |-> ""]

\* A sleep setting of a script or of an action of a script: absent, a number,
\* a function returning the number n, or the value false.
Sleep(kind, n) == [kind |-> kind, n |-> n]
NoSleep == Sleep("absent", 0)

RECURSIVE Invoke(_, _, _, _)
RECURSIVE action(_, _, _)

\* --------------------------------------------------- async.forEach callback
\* The callback async.forEach hands to the iterator of _getStatic: the first
\* error goes to the final callback, which is then replaced by a no-op; the
\* last success calls the final callback without an error.
\* The callback of async.forEach handing every error to the final callback.
asyncCallback_everyError(s, g, err) ==
  LET run == s.gstatic[g] IN
  IF err \notin NoError
  THEN Invoke([s EXCEPT !.gstatic[g].called = TRUE], run.k, err, Undefined)
  ELSE LET s1 == [s EXCEPT !.gstatic[g].completed = @ + 1]
       IN IF s1.gstatic[g].completed = run.total /\ ~run.called
          THEN Invoke(s1, run.k, "undefined", Undefined)
          ELSE s1

asyncCallback(s, g, err) ==
  LET run == s.gstatic[g] IN
  IF err \notin NoError
  THEN LET s1 == [s EXCEPT !.gstatic[g].called = TRUE]
       IN IF run.called THEN s1 ELSE Invoke(s1, run.k, err, Undefined)
  ELSE LET s1 == [s EXCEPT !.gstatic[g].completed = @ + 1]
       IN IF s1.gstatic[g].completed = run.total /\ ~run.called
          THEN Invoke(s1, run.k, "undefined", Undefined)
          ELSE s1

\* The function (error, result) _getStatic passes to self.action for one file.
staticFetched(s, k, err, data) ==
  LET run == s.gstatic[k.id]
      s1 == IF err \in NoError /\ data # Undefined /\ run.cache
            THEN [s EXCEPT !.staticData[k.uri] = Some(data[1].body)]
            ELSE s
  IN asyncCallback(s1, k.id, err)

\* ---------------------------------------------------------- ScriptedClient
\* clear() leaving the marker of a script in progress as it is.
scriptedClear_keepsMarker(s) ==
  [clear(s) EXCEPT !.script = Undefined]

\* ScriptedClient.prototype.clear (lines 148-152).
scriptedClear(s) ==
  [clear(s) EXCEPT !.script = Undefined, !.scriptInProgress = FALSE]

\* The final callback calling back without clearing anything.
scriptDone_noClear(s, run, err) ==
  LET s1 == [s EXCEPT !.runs[run].done = TRUE]
  IN IF s.runs[run].hasCb
     THEN [s1 EXCEPT !.scalls[run] = Append(@, err)]
     ELSE s1

\* The final callback of async.forEachSeries in runScript (lines 103-113).
scriptDone(s, run, err) ==
  LET s1 == scriptedClear([s EXCEPT !.runs[run].done = TRUE])
  IN IF s.runs[run].hasCb
     THEN [s1 EXCEPT !.scalls[run] = Append(@, err)]
     ELSE s1

\* The function sleep() calls when the pause is over (lines 99-101): the
\* action at position idx of the script is dispatched.
scriptStep(s, run, idx) ==
  LET item == s.runs[run].script.actions[1][idx]
      s1 == [s EXCEPT !.runs[run].log = Append(@, [idx |-> idx, at |-> s.now])]
  IN action(s1, item.a, ScriptK(run))

\* sleep() taking the setting of the script before that of the action.
sleep_scriptFirst(s, run, idx) ==
  LET item == s.runs[run].script.actions[1][idx]
      dflt == s.script # Undefined /\ s.script[1].sleep.kind \in {"number", "function"}
      sl == IF dflt THEN s.script[1].sleep ELSE item.sleep
  IN IF sl.kind \in {"number", "function"}
     THEN [s EXCEPT !.timers =
             @ \cup {Timer("sleep", ScriptK(run), idx, "", s.now + sl.n)}]
     ELSE scriptStep(s, run, idx)

\* ScriptedClient.prototype.sleep (lines 125-142) for the action at idx.
sleep(s, run, idx) ==
  LET item == s.runs[run].script.actions[1][idx]
      own == item.sleep.kind \in {"number", "function"}
  IN IF ~own /\ s.script = Undefined
     THEN Throw(s, "TypeError")
     ELSE LET sl == IF own THEN item.sleep ELSE s.script[1].sleep
          IN IF sl.kind \in {"number", "function"}
             THEN [s EXCEPT !.timers =
                     @ \cup {Timer("sleep", ScriptK(run), idx, "", s.now + sl.n)}]
             ELSE scriptStep(s, run, idx)

\* iterate() calling the iterator for the next action but one as well.
iterate_twoAtOnce(s, run) ==
  LET r == s.runs[run]
      s1 == sleep(s, run, r.completed + 1)
  IN IF r.completed + 2 <= Len(r.script.actions[1])
     THEN sleep(s1, run, r.completed + 2)
     ELSE s1

\* iterate() of async.forEachSeries: the iterator is called for arr[completed].
iterate(s, run) ==
  LET r == s.runs[run]
  IN IF r.completed >= Len(r.script.actions[1])
     THEN Throw(s, "TypeError")
     ELSE sleep(s, run, r.completed + 1)

\* The callback async.forEachSeries hands to the iterator: the first error
\* goes to the final callback, which is then replaced by a no-op; a success
\* moves on to the next action, or calls the final callback after the last.
seriesCallback(s, run, err) ==
  LET r == s.runs[run] IN
  IF err \notin NoError
  THEN LET s1 == [s EXCEPT !.runs[run].called = TRUE]
       IN IF r.called THEN s1 ELSE scriptDone(s1, run, err)
  ELSE LET s1 == [s EXCEPT !.runs[run].completed = @ + 1]
       IN IF r.completed + 1 = Len(r.script.actions[1])
          THEN IF r.called THEN s1 ELSE scriptDone(s1, run, "null")
          ELSE iterate(s1, run)

\* runScript calling back with an error (lines 71, 77, 81, 85): the callback
\* is called whether it was given or not.
reject(s, run, err) ==
  IF s.runs[run].hasCb
  THEN [s EXCEPT !.scalls[run] = Append(@, err)]
  ELSE Throw(s, "TypeError")

\* runScript taking a script without looking at its name or its actions.
runScript_unchecked(s, run) ==
  LET sc == s.runs[run].script IN
  IF s.scriptInProgress THEN reject(s, run, "ScriptAlreadyRunning")
  ELSE LET s1 == [s EXCEPT !.script = Some(sc), !.scriptInProgress = TRUE,
                           !.runs[run].running = TRUE]
       IN IF sc.actions = Undefined \/ sc.actions[1] = <<>>
          THEN scriptDone(s1, run, "undefined")
          ELSE iterate(s1, run)

\* ScriptedClient.prototype.runScript (lines 69-115) for run number run.
runScript(s, run) ==
  LET sc == s.runs[run].script IN
  IF s.scriptInProgress THEN reject(s, run, "ScriptAlreadyRunning")
  ELSE IF ~sc.object THEN reject(s, run, "InvalidScript")
  ELSE IF sc.name = Undefined THEN reject(s, run, "InvalidScriptName")
  ELSE IF sc.actions = Undefined THEN reject(s, run, "InvalidScriptActions")
  ELSE LET s1 == [s EXCEPT !.script = Some(sc), !.scriptInProgress = TRUE,
                           !.runs[run].running = TRUE]
       IN IF sc.actions[1] = <<>>
          THEN scriptDone(s1, run, "undefined")
          ELSE iterate(s1, run)

\* Calling a callback.
Invoke(s, k, err, data) ==
  IF k.kind = "user"
  THEN [s EXCEPT !.calls[k.id] = Append(@, [err |-> err, data |-> data])]
  ELSE IF k.kind = "script"
  THEN seriesCallback(s, k.id, err)
  ELSE staticFetched(s, k, err, data)

\* -------------------------------------------------------------------- _http
HttpResult(status, body) == [statusCode |-> status, body |-> body]

\* _http going on after the callback of a failed precondition, as it does
\* after the callback for a missing path.
_http_noReturn(s, a, k) ==
  LET a1 == [a EXCEPT !.method = IF a.method = "" THEN "GET" ELSE a.method]
      s0 == IF a.ajax /\ s.page = Undefined
            THEN Invoke(s, k, "NoPageAjax", Undefined)
            ELSE IF a.method = "POST" /\ s.page = Undefined
            THEN Invoke(s, k, "NoPagePost", Undefined)
            ELSE s
      s1 == IF a1.path = "" THEN Invoke(s0, k, "MissingPath", Undefined) ELSE s0
  IN [s1 EXCEPT !.inflight = @ \cup {[a |-> a1, k |-> k]},
                !.net = Append(@, NetOp("request", a1.path, a1.ajax))]

_http(s, a, k) ==
  IF a.ajax /\ s.page = Undefined
  THEN Invoke(s, k, "NoPageAjax", Undefined)
  ELSE IF a.method = "POST" /\ s.page = Undefined
  THEN Invoke(s, k, "NoPagePost", Undefined)
  ELSE
    LET a1 == [a EXCEPT !.method = IF a.method = "" THEN "GET" ELSE a.method]
        \* no return after this callback: the request is made all the same
        s1 == IF a1.path = "" THEN Invoke(s, k, "MissingPath", Undefined) ELSE s
    IN [s1 EXCEPT !.inflight = @ \cup {[a |-> a1, k |-> k]},
                  !.net = Append(@, NetOp("request", a1.path, a1.ajax))]

_ajax(s, a, k) == _http(s, [a EXCEPT !.type = "http", !.ajax = TRUE], k)

_get(s, a, k) ==
  _http(s, [a EXCEPT !.type = "http", !.method = "GET", !.ajax = FALSE], k)

_post(s, a, k) ==
  _http(s, [a EXCEPT !.type = "http", !.method = "POST", !.ajax = FALSE], k)

\* The result placed without a look at discardResponse.
PlaceResult_alwaysStores(s, a, result) ==
  IF a.ajax
  THEN [s EXCEPT !.ajax = Some(result)]
  ELSE [s EXCEPT !.page = Some([statusCode |-> result.statusCode,
                                body |-> result.body,
                                socketsDefined |-> FALSE,
                                sockets |-> NoSockets])]

\* The result placed with the sockets the client has opened so far.
PlaceResult_reusesChannels(s, a, result) ==
  IF ~a.discardResponse
  THEN IF a.ajax
       THEN [s EXCEPT !.ajax = Some(result)]
       ELSE [s EXCEPT !.page =
               Some([statusCode |-> result.statusCode,
                     body |-> result.body,
                     socketsDefined |-> s.socks # <<>>,
                     sockets |->
                       [n \in Namespaces |->
                          IF \E c \in DOMAIN s.socks : s.socks[c].ns = n
                          THEN CHOOSE c \in DOMAIN s.socks : s.socks[c].ns = n
                          ELSE 0]])]
  ELSE s

\* Where the callback of request() puts the result (lines 208-214).
PlaceResult(s, a, result) ==
  IF ~a.discardResponse
  THEN IF a.ajax
       THEN [s EXCEPT !.ajax = Some(result)]
       ELSE [s EXCEPT !.page = Some([statusCode |-> result.statusCode,
                                     body |-> result.body,
                                     socketsDefined |-> FALSE,
                                     sockets |-> NoSockets])]
  ELSE s

\* The callback of request() taking a status other than 200 for an error.
httpResponse_errorStatus(s, r, status, body, cookies) ==
  LET result == HttpResult(status, body)
      s1 == [s EXCEPT !.inflight = @ \ {r}, !.jar = @ \cup cookies]
  IN IF status = 200
     THEN Invoke(PlaceResult(s1, r.a, result), r.k, "null", Some(result))
     ELSE Invoke(s1, r.k, "BadStatus", Some(result))

\* The callback of request() when a response came.
httpResponse(s, r, status, body, cookies) ==
  LET result == HttpResult(status, body)
      s1 == [s EXCEPT !.inflight = @ \ {r}, !.jar = @ \cup cookies]
  IN Invoke(PlaceResult(s1, r.a, result), r.k, "null", Some(result))

\* The callback of request() storing the empty result when no response came.
httpNoResponse_storesResult(s, r) ==
  LET result == HttpResult(0, UndefBody)
  IN Invoke(PlaceResult([s EXCEPT !.inflight = @ \ {r}], r.a, result), r.k,
            "TransportUnavailable:" \o r.a.path, Some(result))

\* The callback of request() when no response came: the error names the path
\* and the result has neither status nor body (status 0 stands for undefined).
httpNoResponse(s, r) ==
  Invoke([s EXCEPT !.inflight = @ \ {r}], r.k,
         "TransportUnavailable:" \o r.a.path, Some(HttpResult(0, UndefBody)))

\* ------------------------------------------------------------------ _unload
\* namespace.disconnect() for every namespace of the page.
DisconnectAll(s, p) ==
  [s EXCEPT !.socks =
     [c \in DOMAIN s.socks |->
        IF \E n \in Namespaces : p.sockets[n] = c
        THEN [s.socks[c] EXCEPT !.state = "disconnected"]
        ELSE s.socks[c]]]

\* _unload clearing the client with clear(), cookies and static cache included.
_unload_clearsAll(s, a, k) ==
  IF s.page = Undefined
  THEN Invoke(s, k, "undefined", Undefined)
  ELSE LET p == s.page[1]
           s1 == IF p.socketsDefined THEN DisconnectAll(s, p) ELSE s
       IN Invoke(clear(s1), k, "undefined", Undefined)

_unload(s, a, k) ==
  IF s.page = Undefined
  THEN Invoke(s, k, "undefined", Undefined)
  ELSE LET p == s.page[1]
           s1 == IF p.socketsDefined THEN DisconnectAll(s, p) ELSE s
           s2 == [s1 EXCEPT !.page = Undefined, !.ajax = Undefined,
                            !.socketEvent = Undefined]
       IN Invoke(s2, k, "undefined", Undefined)

\* --------------------------------------------------------------- _getStatic
\* page.body.match(/(href|src)=["][^"]+["]/ig), each reduced to its URI.
AttrMatches(body) == SelectSeq(body, LAMBDA tok : tok \in Uris)

\* match.match(/:\/\//)
IsAbsolute(u) == u \in {"http://x/u.js"}

\* match.match(new RegExp("\\.(js|css|jpg|png|gif)")), the default extensions.
HasExtension(u) == u \in {"/s.css", "/t.js", "/w.png", "http://x/u.js"}

\* The map step of lines 353-371: "" stands for null.
MapMatch(s, u) ==
  IF IsAbsolute(u) THEN ""
  ELSE IF ~HasExtension(u) THEN ""
  ELSE IF Truthy(s.staticData[u]) THEN ""
  ELSE u

LastIndexOf(seq, x) ==
  LET I == {i \in DOMAIN seq : seq[i] = x}
  IN CHOOSE i \in I : \A j \in I : j <= i

RECURSIVE KeepFrom(_, _)
\* The filter step of lines 371-378, from index i on.
KeepFrom(arr, i) ==
  IF i > Len(arr) THEN <<>>
  ELSE IF arr[i] # "" /\ i = LastIndexOf(arr, arr[i])
       THEN <<arr[i]>> \o KeepFrom(arr, i + 1)
       ELSE KeepFrom(arr, i + 1)

StaticMatches(s, body) ==
  LET found == AttrMatches(body)
      mapped == [i \in DOMAIN found |-> MapMatch(s, found[i])]
  IN KeepFrom(mapped, 1)

RECURSIVE forEachFetch(_, _, _, _)
\* async.forEach calling the iterator for matches[i..]: one get per file.
forEachFetch(s, g, matches, i) ==
  IF i > Len(matches) THEN s
  ELSE forEachFetch(
         action(s, [BlankAction EXCEPT !.type = "get",
                                       !.discardResponse = TRUE,
                                       !.path = matches[i]],
                StaticK(g, matches[i])),
         g, matches, i + 1)

_getStatic(s, a, k) ==
  IF s.page = Undefined \/ s.page[1].body = <<>>
  THEN Invoke(s, k, "undefined", Undefined)
  ELSE IF AttrMatches(s.page[1].body) = <<>>
  THEN Invoke(s, k, "undefined", Undefined)
  ELSE
    LET matches == StaticMatches(s, s.page[1].body)
        g == Len(s.gstatic) + 1
        run == [k |-> k, total |-> Len(matches), completed |-> 0,
                called |-> FALSE, cache |-> a.cache]
    IN IF matches = <<>>
       THEN Invoke(s, k, "undefined", Undefined)
       ELSE forEachFetch([s EXCEPT !.gstatic = Append(@, run)], g, matches, 1)

\* ------------------------------------------------------------------ _socket

\* Is this the first socket connection for this page? (line 433)
IsFirst(p) == ~p.socketsDefined \/ \A n \in Namespaces : p.sockets[n] = 0

\* The overrides of lines 436-444: firstSocketConfig or socketConfig.
Overrides(first) == [autoConnect |-> FALSE, forceNew |-> first]

\* The configuration in which what the action gives wins.
Configure_givenWins(given, overrides) ==
  [prop \in DOMAIN given \cup DOMAIN overrides |->
     IF prop \in DOMAIN given THEN given[prop] ELSE overrides[prop]]

\* Lines 435-444: the clone of action.socketConfig, or {}, with every property
\* of the overrides written over it.
Configure(given, overrides) ==
  [prop \in DOMAIN given \cup DOMAIN overrides |->
     IF prop \in DOMAIN overrides THEN overrides[prop] ELSE given[prop]]

_socket(s, a, k) ==
  IF s.page = Undefined
  THEN Invoke(s, k, "NoPageSocket", Undefined)
  ELSE
    LET ns == IF a.namespace = "" THEN DefaultNamespace ELSE a.namespace
        p == s.page[1]
        cfg == Configure(a.socketConfig, Overrides(IsFirst(p)))
        c == Len(s.socks) + 1
        hear == IF a.sync THEN <<>>
                ELSE <<Listener("connect", "conn", k), Listener("error", "conn", k)>>
        sock == [ns |-> ns, state |-> IF a.sync THEN "connected" ELSE "connecting",
                 forceNew |-> cfg["forceNew"], autoConnect |-> cfg["autoConnect"],
                 listeners |-> hear]
        s1 == [s EXCEPT !.socks = Append(@, sock),
                        !.net = Append(@, NetOp("connect", ns, cfg["forceNew"])),
                        !.page = Some([p EXCEPT !.socketsDefined = TRUE,
                                                !.sockets[ns] = c])]
    IN IF a.sync
       THEN Invoke(s1, k, "undefined", Undefined)
       ELSE [s1 EXCEPT !.timers =
               @ \cup {Timer("connect", k, c, "", s.now + a.timeout)}]

\* -------------------------------------------------------------------- _emit

_emit(s, a, k) ==
  IF s.page = Undefined
  THEN Invoke(s, k, "NoPageEmit", Undefined)
  ELSE IF a.args = <<>>
  THEN Invoke(s, k, "BadArgs", Undefined)
  ELSE
    LET ns == IF a.namespace = "" THEN DefaultNamespace ELSE a.namespace
        p == s.page[1]
    IN IF ~p.socketsDefined
       THEN Throw(s, "TypeError")
       ELSE IF p.sockets[ns] = 0
       THEN Invoke(s, k, "NoSuchChannel", Undefined)
       ELSE Invoke([s EXCEPT !.net = Append(@, NetOp("emit", a.args[1], FALSE))],
                   k, "undefined", Undefined)

\* --------------------------------------------------------------- _awaitEmit
\* _awaitEmit with a timer set one tick too long.
_awaitEmit_lateTimer(s, a, k) ==
  IF s.page = Undefined
  THEN Invoke(s, k, "NoPageEmit", Undefined)
  ELSE
    LET ns == IF a.namespace = "" THEN DefaultNamespace ELSE a.namespace
        p == s.page[1]
        c == p.sockets[ns]
    IN IF ~p.socketsDefined
       THEN Throw(s, "TypeError")
       ELSE IF c = 0
       THEN Invoke(s, k, "NoSuchChannel", Undefined)
       ELSE [s EXCEPT
               !.timers = @ \cup {Timer("await", k, c, a.eventType, s.now + a.timeout + 1)},
               !.socks[c].listeners = Append(@, Listener(a.eventType, "await", k))]

_awaitEmit(s, a, k) ==
  IF s.page = Undefined
  THEN Invoke(s, k, "NoPageEmit", Undefined)
  ELSE
    LET ns == IF a.namespace = "" THEN DefaultNamespace ELSE a.namespace
        p == s.page[1]
        c == p.sockets[ns]
    IN IF ~p.socketsDefined
       THEN Throw(s, "TypeError")
       ELSE IF c = 0
       THEN Invoke(s, k, "NoSuchChannel", Undefined)
       ELSE [s EXCEPT
               !.timers = @ \cup {Timer("await", k, c, a.eventType, s.now + a.timeout)},
               !.socks[c].listeners = Append(@, Listener(a.eventType, "await", k))]

\* removeListener taking nothing away.
removeListener_none(s, c, l) == s

\* namespace.removeListener(name, listener)
removeListener(s, c, l) ==
  [s EXCEPT !.socks[c].listeners = SelectSeq(@, LAMBDA x : x # l)]

\* clearTimeout(timeoutId) for the timer of callback k
clearTimeout(s, kind, k) ==
  [s EXCEPT !.timers = {t \in @ : ~(t.kind = kind /\ t.k = k)}]

\* The listener of _awaitEmit, handing the event on without storing it.
awaitListener_noStore(s, c, l, args) ==
  LET s1 == clearTimeout(s, "await", l.k)
      ev == [namespace |-> s.socks[c].ns, eventType |-> l.event, args |-> args]
  IN Invoke(s1, l.k, "null", Some(ev))

\* The listener of _awaitEmit (lines 551-563), called with args.
awaitListener(s, c, l, args) ==
  LET s1 == clearTimeout(s, "await", l.k)
      ev == [namespace |-> s.socks[c].ns, eventType |-> l.event, args |-> args]
      s2 == [s1 EXCEPT !.socketEvent = Some(ev)]
  IN Invoke(s2, l.k, "null", s2.socketEvent)

\* The timeout of _awaitEmit, leaving the listener on the namespace.
awaitTimeout_keepsListener(s, t) ==
  Invoke(s, t.k, "AwaitTimeout", Undefined)

\* The timeout of _awaitEmit (lines 565-568).
awaitTimeout(s, t) ==
  Invoke(removeListener(s, t.chan, Listener(t.event, "await", t.k)),
         t.k, "AwaitTimeout", Undefined)

\* The listener of _socket (lines 461-464), called with error.
connectListener(s, l, err) ==
  Invoke(clearTimeout(s, "connect", l.k), l.k, err, Undefined)

\* The timeout of _socket calling back with its listeners left in place.
connectTimeout_keepsListeners(s, t) ==
  Invoke(s, t.k, "ConnectTimeout:" \o s.socks[t.chan].ns, Undefined)

\* The timeout of _socket (lines 467-471): the error names the namespace.
connectTimeout(s, t) ==
  LET s1 == removeListener(s, t.chan, Listener("connect", "conn", t.k))
      s2 == removeListener(s1, t.chan, Listener("error", "conn", t.k))
  IN Invoke(s2, t.k, "ConnectTimeout:" \o s.socks[t.chan].ns, Undefined)

\* ------------------------------------------------------------------- action
\* The methods _<type> of the prototype.
Handlers == {"http", "ajax", "get", "post", "unload", "getStatic", "socket",
             "emit", "awaitEmit"}

\* The action taken as it is given.
Normalise_asGiven(raw) == raw

\* Lines 94-102: the string shortcut and the default type.
Normalise(raw) ==
  LET a == IF raw.str
           THEN [BlankAction EXCEPT !.type = "get", !.path = raw.path]
           ELSE raw
  IN [a EXCEPT !.type = IF a.type = "" THEN "get" ELSE a.type]

\* action taking every type it has no method for as a get.
action_defaultsToGet(s, raw, k) ==
  LET a == Normalise(raw) IN
  CASE a.type = "http" -> _http(s, a, k)
    [] a.type = "ajax" -> _ajax(s, a, k)
    [] a.type = "post" -> _post(s, a, k)
    [] a.type = "unload" -> _unload(s, a, k)
    [] a.type = "getStatic" -> _getStatic(s, a, k)
    [] a.type = "socket" -> _socket(s, a, k)
    [] a.type = "emit" -> _emit(s, a, k)
    [] a.type = "awaitEmit" -> _awaitEmit(s, a, k)
    [] OTHER -> _get(s, a, k)

action(s, raw, k) ==
  LET a == Normalise(raw) IN
  IF a.type \in Handlers
  THEN CASE a.type = "http" -> _http(s, a, k)
         [] a.type = "ajax" -> _ajax(s, a, k)
         [] a.type = "get" -> _get(s, a, k)
         [] a.type = "post" -> _post(s, a, k)
         [] a.type = "unload" -> _unload(s, a, k)
         [] a.type = "getStatic" -> _getStatic(s, a, k)
         [] a.type = "socket" -> _socket(s, a, k)
         [] a.type = "emit" -> _emit(s, a, k)
         [] a.type = "awaitEmit" -> _awaitEmit(s, a, k)
  ELSE Invoke(s, k, "NoSuchActionType", Undefined)

\* ------------------------------------------------- the events of a namespace
RECURSIVE fireListeners(_, _, _, _, _, _)
\* EventEmitter.emit: every listener registered for the event when it arrives
\* is called in order; a once() listener removes itself first.
fireListeners(s, c, ls, i, args, err) ==
  IF i > Len(ls) THEN s
  ELSE LET l == ls[i]
           s1 == removeListener(s, c, l)
           s2 == IF l.kind = "await"
                 THEN awaitListener(s1, c, l, args)
                 ELSE connectListener(s1, l, err)
       IN fireListeners(s2, c, ls, i + 1, args, err)

emitEvent(s, c, event, args, err) ==
  fireListeners(s, c, SelectSeq(s.socks[c].listeners, LAMBDA l : l.event = event),
                1, args, err)

\* ---------------------------------------------------------------- the turns
\* The timers phase of the event loop comes before the polling for I/O: a
\* timer that is due fires before any I/O callback of the same instant.
TimerDue == \E t \in timers : t.deadline <= now

Timed(a) == Normalise(a).type \in {"socket", "awaitEmit"}

\* The caller calls client.action(a, callback).
Call(a) ==
  /\ Timed(a) => now + a.timeout <= MaxTime
  /\ LET id == Len(acts) + 1
         p == IF page = Undefined THEN 0
              ELSE page[1].sockets[IF a.namespace = "" THEN DefaultNamespace
                                   ELSE a.namespace]
         s0 == [Cur EXCEPT !.acts = Append(@, [a |-> a, at |-> now, chan |-> p,
                                               paged |-> page # Undefined]),
                           !.calls = Append(@, <<>>)]
     IN Commit(action(s0, a, UserK(id)))

\* The server answers a request with one of the responses R.
Response(status, body, cookies) ==
  [status |-> status, body |-> body, cookies |-> cookies]

Respond(R) ==
  \E r \in inflight, x \in R :
    /\ ~TimerDue
    /\ Commit(httpResponse(Cur, r, x.status, x.body, x.cookies))

\* The request ends without a response.
HttpFail ==
  \E r \in inflight :
    /\ ~TimerDue
    /\ Commit(httpNoResponse(Cur, r))

\* The connection of a namespace completes: its connect event.
SockConnect ==
  \E c \in DOMAIN socks :
    /\ ~TimerDue
    /\ socks[c].state = "connecting"
    /\ Commit(emitEvent([Cur EXCEPT !.socks[c].state = "connected"],
                        c, "connect", <<>>, "undefined"))

\* The namespace reports an error: its error event.
SockError ==
  \E c \in DOMAIN socks :
    /\ ~TimerDue
    /\ socks[c].state \in {"connecting", "connected"}
    /\ Commit(emitEvent(
         [Cur EXCEPT !.socks[c].state =
            IF @ = "connecting" THEN "errored" ELSE @],
         c, "error", <<>>, "ConnectError"))

\* An event of the server, one of E with one of the argument lists A, arrives
\* on a connected namespace.
SockEvent(E, A) ==
  \E c \in DOMAIN socks, e \in E, args \in A :
    /\ ~TimerDue
    /\ Len(emits) < MaxEmits
    /\ socks[c].state = "connected"
    /\ Commit(emitEvent(
         [Cur EXCEPT !.emits = Append(@, [chan |-> c, event |-> e, args |-> args,
                                          at |-> now, after |-> Len(acts)])],
         c, e, args, "undefined"))

\* A server that sends an event only to a namespace on which the client is
\* listening for it.
SockReply(E, A) ==
  \E c \in DOMAIN socks, e \in E, args \in A :
    /\ ~TimerDue
    /\ socks[c].state = "connected"
    /\ \E n \in DOMAIN socks[c].listeners : socks[c].listeners[n].event = e
    /\ Commit(emitEvent(
         [Cur EXCEPT !.emits = Append(@, [chan |-> c, event |-> e, args |-> args,
                                          at |-> now, after |-> Len(acts)])],
         c, e, args, "undefined"))

\* A script: object says it is an object at all, name is Undefined unless it
\* is a string, actions is Undefined unless it is an array; an element of the
\* array is an action with its own sleep setting.
Script(name, sl, actions) ==
  [object |-> TRUE, name |-> name, sleep |-> sl, actions |-> actions]
Item(a, sl) == [a |-> a, sleep |-> sl]

RECURSIVE Pauses(_, _, _)
\* The time the timers of the actions of a script from position i on can take.
Pauses(sc, acs, i) ==
  IF i > Len(acs) THEN 0
  ELSE LET it == acs[i]
           sl == IF it.sleep.kind \in {"number", "function"} THEN it.sleep.n
                 ELSE IF sc.sleep.kind \in {"number", "function"} THEN sc.sleep.n
                 ELSE 0
           to == IF Normalise(it.a).type \in {"socket", "awaitEmit"}
                 THEN it.a.timeout ELSE 0
       IN sl + to + Pauses(sc, acs, i + 1)

Duration(sc) ==
  IF sc.object /\ sc.actions # Undefined THEN Pauses(sc, sc.actions[1], 1) ELSE 0

\* The caller calls client.runScript(sc, callback), or client.runScript(sc)
\* where B allows it: cb says a callback is passed.
RunScript(S, B) ==
  \E sc \in S, cb \in B :
    /\ Len(runs) < MaxRuns
    /\ now + Duration(sc) <= MaxTime
    /\ LET run == Len(runs) + 1
           s0 == [Cur EXCEPT
                    !.runs = Append(@, [script |-> sc, hasCb |-> cb, at |-> now,
                                        running |-> FALSE, done |-> FALSE,
                                        completed |-> 0, called |-> FALSE,
                                        log |-> <<>>]),
                    !.scalls = Append(@, <<>>)]
       IN Commit(runScript(s0, run))

\* A timer that is due fires.
TimerFire ==
  \E t \in timers :
    /\ t.deadline <= now
    /\ LET s1 == [Cur EXCEPT !.timers = @ \ {t}]
       IN Commit(IF t.kind = "await" THEN awaitTimeout(s1, t)
                 ELSE IF t.kind = "sleep" THEN scriptStep(s1, t.k.id, t.chan)
                 ELSE connectTimeout(s1, t))

\* Time passes, up to the next timer.
Tick ==
  /\ timers # {}
  /\ ~TimerDue
  /\ now < MaxTime
  /\ now' = now + 1
  /\ UNCHANGED <<page, ajax, socketEvent, staticData, jar, socks, timers,
                 inflight, gstatic, acts, calls, net, thrown, emits, script,
                 scriptInProgress, runs, scalls>>

\* ------------------------------------------------------- what the caller does
Get(path) == [BlankAction EXCEPT !.type = "get", !.path = path]
Str(path) == [BlankAction EXCEPT !.str = TRUE, !.path = path]
GetStatic(c) == [BlankAction EXCEPT !.type = "getStatic", !.cache = c]
\* An action object with a path and no type.
NoType(path) == [BlankAction EXCEPT !.path = path]
Unload == [BlankAction EXCEPT !.type = "unload"]
Socket(n, t, b) ==
  [BlankAction EXCEPT !.type = "socket", !.namespace = n, !.timeout = t, !.sync = b]
Emit(n) == [BlankAction EXCEPT !.type = "emit", !.namespace = n, !.args = <<"test">>]
\* awaitEmit and the documented actions of the same shape
Await(type, n, e, t) ==
  [BlankAction EXCEPT !.type = type, !.namespace = n, !.eventType = e, !.timeout = t]

\* Every earlier action has been called back.
AllAnswered == \A i \in DOMAIN calls : calls[i] # <<>>

\* The actions not yet called back.
Unanswered == {i \in DOMAIN calls : calls[i] = <<>>}

\* --------------------------------------------- the await-emit specification
\* A caller that loads a page, opens the default namespace and then awaits
\* events or unloads, with at most two actions under way at a time.
AwaitMenu ==
  {Await("awaitEmit", "", e, t) : e \in EventTypes, t \in 1..MaxTimeout}
  \cup {Unload}

AwaitCaller ==
  \/ /\ acts = <<>>
     /\ Call(Get("/a"))
  \/ /\ Len(acts) = 1
     /\ AllAnswered
     /\ Call(Socket("", 1, FALSE))
  \/ /\ Len(acts) >= 2
     /\ Len(acts) < 2 + MaxActions
     /\ calls[2] # <<>>
     /\ Cardinality(Unanswered) <= 1
     /\ \E a \in AwaitMenu : Call(a)

PlainPage == {Response(200, <<"text">>, {})}

NextAwait ==
  \/ AwaitCaller
  \/ Respond(PlainPage)
  \/ SockConnect
  \/ SockEvent(EventTypes, {<<"x", "y">>})
  \/ TimerFire
  \/ Tick

SpecAwait == Init /\ [][NextAwait]_vars

\* The same, with what the event loop of the client is sure to do: time
\* passes and a timer that is due fires.  Nothing says that the answer to a
\* request, the connect event or an event of the server ever arrives.
SpecTimers == SpecAwait /\ WF_vars(Tick) /\ WF_vars(TimerFire)

\* ------------------------------------------ the timeout left to the session
\* config.sockets.defaultTimeout as the README gives it, in the unit of now.
DefaultTimeout == 2

\* A caller that loads a page, opens the default namespace and awaits events,
\* one action at a time, with a timeout of its own or without one.
DefaultCaller ==
  /\ AllAnswered
  /\ \/ /\ acts = <<>>
        /\ Call(Get("/a"))
     \/ /\ Len(acts) = 1
        /\ \E t \in 0..1 : Call(Socket("", t, FALSE))
     \/ /\ Len(acts) >= 2
        /\ Len(acts) < 2 + MaxActions
        /\ \E e \in EventTypes, t \in 0..MaxTimeout : Call(Await("awaitEmit", "", e, t))

NextDefault ==
  \/ DefaultCaller
  \/ Respond(PlainPage)
  \/ SockConnect
  \/ SockEvent(EventTypes, {<<"x", "y">>})
  \/ TimerFire
  \/ Tick

SpecDefault == Init /\ [][NextDefault]_vars

\* --------------------------------------------------- pages and their channels
\* A caller that loads pages, unloads them and opens namespaces, one action at
\* a time, with or without a socketConfig of its own.
ChannelMenu ==
  {Get("/a"), Unload,
   Socket("", 1, FALSE), Socket("/chat", 1, FALSE), Socket("", 1, TRUE),
   [Socket("/chat", 1, FALSE) EXCEPT
      !.socketConfig = [autoConnect |-> TRUE, forceNew |-> TRUE]],
   [Socket("", 1, FALSE) EXCEPT
      !.socketConfig = [autoConnect |-> TRUE, forceNew |-> FALSE]]}

ChannelCaller ==
  /\ AllAnswered
  /\ \/ /\ acts = <<>>
        /\ Call(Get("/a"))
     \/ /\ acts # <<>>
        /\ Len(acts) < 3 + MaxActions
        /\ \E a \in ChannelMenu : Call(a)

NextChannels ==
  \/ ChannelCaller
  \/ Respond(PlainPage)
  \/ SockConnect
  \/ TimerFire
  \/ Tick

SpecChannels == Init /\ [][NextChannels]_vars

\* ------------------------------------------------ the general specification
\* A caller that dispatches one action at a time, each after the callback of
\* the one before: it asks for a page, opens the default namespace, and goes on
\* with any of the implemented actions.
Menu ==
  {Get("/a"),
   [BlankAction EXCEPT !.type = "ajax", !.path = "/a"],
   [BlankAction EXCEPT !.type = "post", !.path = "/a"],
   [BlankAction EXCEPT !.type = "http", !.path = "/a", !.discardResponse = TRUE],
   [BlankAction EXCEPT !.type = "getStatic"],
   Unload,
   Socket("", 1, FALSE),
   Emit(""),
   Await("awaitEmit", "", "E", 1)}

\* The caller of Menu M.
Caller(M) ==
  /\ AllAnswered
  /\ \/ /\ acts = <<>>
        /\ Call(Get("/a"))
     \/ /\ Len(acts) = 1
        /\ Call(Socket("", 1, FALSE))
     \/ /\ Len(acts) >= 2
        /\ Len(acts) < 2 + MaxActions
        /\ \E a \in M : Call(a)

Dispatch == Caller(Menu)

\* What the server answers with.
Served ==
  {Response(200, <<"/s.css", "text">>, {"sid"}), Response(404, <<"text">>, {})}

Next ==
  \/ Dispatch
  \/ Respond(Served)
  \/ HttpFail
  \/ SockConnect
  \/ SockError
  \/ SockReply({"E"}, {<<"x", "y">>})
  \/ TimerFire
  \/ Tick

Spec == Init /\ [][Next]_vars

\* ------------------------------------------------ the ways to ask for a page
\* A caller that asks for pages in the three ways there are, makes AJAX
\* requests and unloads, one action at a time.
ShortcutMenu ==
  {Str("/a"), NoType("/a"), Get("/a"), Unload,
   [BlankAction EXCEPT !.type = "ajax", !.path = "/a"]}

DispatchShortcut ==
  /\ AllAnswered
  /\ Len(acts) < 2 + MaxActions
  /\ \E a \in ShortcutMenu : Call(a)

NextShortcut ==
  \/ DispatchShortcut
  \/ Respond(Served)
  \/ HttpFail

SpecShortcut == Init /\ [][NextShortcut]_vars

\* ------------------------------------------------ the static files of a page
\* A caller that loads a page and then runs getStatic on it, with the cache or
\* without, one run after the other; the page links three files, and the
\* server answers a request with that page or with an empty body, or not at
\* all.
Linked == <<"/s.css", "text", "/t.js", "/w.png">>

StaticServed == {Response(200, Linked, {}), Response(200, <<>>, {})}

DispatchStatic ==
  /\ AllAnswered
  /\ \/ /\ acts = <<>>
        /\ Call(Get("/a"))
     \/ /\ Len(acts) >= 1
        /\ Len(acts) < 1 + MaxActions
        /\ \E c \in BOOLEAN : Call(GetStatic(c))

NextStatic ==
  \/ DispatchStatic
  \/ Respond(StaticServed)
  \/ HttpFail

SpecStatic == Init /\ [][NextStatic]_vars

\* ------------------------------------------- a page that links a file twice
\* The same caller with a page that links /s.css before and after /t.js; the
\* server answers with that page or with a file of one word, or not at all.
Repeated == <<"/s.css", "/t.js", "text", "/s.css">>

RepeatedServed == {Response(200, Repeated, {}), Response(200, <<"text">>, {})}

NextRepeated ==
  \/ DispatchStatic
  \/ Respond(RepeatedServed)
  \/ HttpFail

SpecRepeated == Init /\ [][NextRepeated]_vars

\* --------------------------------------------- a caller that does not wait
\* A caller that loads a page and then dispatches page loads, AJAX requests,
\* unloads and runs of getStatic without waiting for the callbacks; the page
\* links one file, and the server answers with that page or with one word.
OverlapMenu ==
  {Get("/a"),
   [BlankAction EXCEPT !.type = "ajax", !.path = "/a"],
   Unload,
   GetStatic(TRUE)}

OverlapCaller ==
  \/ /\ acts = <<>>
     /\ Call(Get("/a"))
  \/ /\ acts # <<>>
     /\ Len(acts) < 2 + MaxActions
     /\ \E a \in OverlapMenu : Call(a)

OverlapServed ==
  {Response(200, <<"/s.css", "text">>, {}), Response(200, <<"text">>, {})}

NextOverlap ==
  \/ OverlapCaller
  \/ Respond(OverlapServed)

SpecOverlap == Init /\ [][NextOverlap]_vars

\* ------------------------------------------------- actions that are not well
\* The caller of the general specification with, among its actions, requests
\* that have no path and an action of a type the client does not have.
MalformedMenu ==
  {Get(""),
   [BlankAction EXCEPT !.type = "http"],
   [BlankAction EXCEPT !.type = "nothing", !.path = "/a"],
   Get("/a"),
   Socket("/chat", 1, FALSE),
   Emit("")}

NextMalformed ==
  \/ Caller(MalformedMenu)
  \/ Respond(Served)
  \/ HttpFail
  \/ SockConnect
  \/ SockError
  \/ TimerFire
  \/ Tick

SpecMalformed == Init /\ [][NextMalformed]_vars

\* ------------------------------------------------------ the scripted client
\* A caller of runScript with a script that loads a page, opens the default
\* namespace after a pause and emits, a script with a default pause that loads
\* a page, and a script without actions.  The caller may have loaded a page
\* itself before.
Scripts ==
  {Script(Some("a"), NoSleep,
          Some(<<Item(Str("/a"), NoSleep),
                 Item(Socket("", 1, FALSE), Sleep("number", 1)),
                 Item(Emit(""), NoSleep)>>)),
   Script(Some("b"), Sleep("number", 1), Some(<<Item(Get("/a"), NoSleep)>>)),
   Script(Some("e"), NoSleep, Some(<<>>))}

\* The page the server answers with, and its cookie.
ScriptServed == {Response(200, <<"text">>, {"sid"})}

LoadPage ==
  /\ acts = <<>>
  /\ runs = <<>>
  /\ Call(Get("/a"))

NextScript ==
  \/ LoadPage
  \/ RunScript(Scripts, {TRUE})
  \/ Respond(ScriptServed)
  \/ HttpFail
  \/ SockConnect
  \/ SockError
  \/ TimerFire
  \/ Tick

SpecScript == Init /\ [][NextScript]_vars

\* ---------------------------------------------- things that are no scripts
\* A caller of runScript, with a callback or without, with a script that loads
\* a page after a pause, a script without a name, a script whose actions are
\* no array, and a value that is no object.
InvalidScripts ==
  {Script(Undefined, NoSleep, Some(<<Item(Get("/a"), NoSleep)>>)),
   Script(Some("d"), NoSleep, Undefined),
   [object |-> FALSE, name |-> Undefined, sleep |-> NoSleep, actions |-> Undefined]}

NextInvalid ==
  \/ LoadPage
  \/ RunScript(InvalidScripts
                 \cup {Script(Some("b"), Sleep("number", 1),
                              Some(<<Item(Get("/a"), NoSleep)>>))},
               BOOLEAN)
  \/ Respond(ScriptServed)
  \/ HttpFail
  \/ TimerFire
  \/ Tick

SpecInvalid == Init /\ [][NextInvalid]_vars

\* ------------------------------------------------- the series of a script
\* A caller of runScript with a script that loads a page, opens the default
\* namespace after a pause and loads the page again, and a script whose first
\* action is a get with an empty path and whose second has its own pause; it
\* calls runScript once the callback of the call before has been called.
SeriesScripts ==
  {Script(Some("s"), NoSleep,
          Some(<<Item(Str("/a"), NoSleep),
                 Item(Socket("", 1, FALSE), Sleep("number", 1)),
                 Item(Get("/a"), NoSleep)>>)),
   Script(Some("z"), NoSleep,
          Some(<<Item(Get(""), NoSleep), Item(Get("/a"), Sleep("number", 1))>>))}

RunSeries ==
  /\ Len(runs) < MaxSeries
  /\ \A r \in DOMAIN scalls : scalls[r] # <<>>
  /\ RunScript(SeriesScripts, {TRUE})

NextSeries ==
  \/ RunSeries
  \/ Respond(ScriptServed)
  \/ HttpFail
  \/ SockConnect
  \/ SockError
  \/ TimerFire
  \/ Tick

SpecSeries == Init /\ [][NextSeries]_vars

\* ------------------------------------------------- the pauses of a script
\* A caller that runs, one after the other, scripts with and without a pause
\* of their own whose actions have a pause of their own (a number, a function,
\* or false) or none.
SleepScripts ==
  {Script(Some("p"), Sleep("number", 2),
          Some(<<Item(Get("/a"), Sleep("number", 1)), Item(Unload, NoSleep)>>)),
   Script(Some("q"), Sleep("function", 1),
          Some(<<Item(Get("/a"), Sleep("function", 2))>>)),
   Script(Some("r"), NoSleep,
          Some(<<Item(Str("/a"), NoSleep), Item(Unload, Sleep("function", 1))>>)),
   Script(Some("t"), Sleep("number", 1),
          Some(<<Item(Get("/a"), Sleep("false", 0))>>))}

RunSleep ==
  /\ Len(runs) < MaxSeries
  /\ \A r \in DOMAIN scalls : scalls[r] # <<>>
  /\ RunScript(SleepScripts, {TRUE})

NextSleep ==
  \/ RunSleep
  \/ Respond(ScriptServed)
  \/ HttpFail
  \/ TimerFire
  \/ Tick

SpecSleep == Init /\ [][NextSleep]_vars

\* --------------------------------------- the actions of the README's list
\* The same caller going on with the actions the README lists under names the
\* prototype has no method for (and with awaitEmit and emit, which it has).
Documented ==
  {Await("confirmNoEmit", "", "E", t) : t \in 1..MaxTimeout}
  \cup {[Await("confirmNoMatchingEmit", "", "E", 1) EXCEPT !.match = m] :
          m \in {"false", "true"}}
  \cup {Await("connectAndAwaitEmit", n, "E", 1) : n \in Namespaces}
  \cup {Await("connect", "/chat", "", 1),
        Await("connectAndConfirmNoEmit", "/chat", "E", 1)}

\* The action types of the README's list of actions.
Vocabulary ==
  {"http", "ajax", "get", "post", "unload", "getStatic", "connect", "emit",
   "awaitEmit", "confirmNoEmit", "confirmNoMatchingEmit", "connectAndAwaitEmit",
   "connectAndConfirmNoEmit"}

DispatchDocumented ==
  Caller(Documented \cup {Await("awaitEmit", "", "E", 1), Emit("")})

NextReadme ==
  \/ DispatchDocumented
  \/ Respond(Served)
  \/ SockConnect
  \/ SockEvent({"E"}, {<<"x", "y">>})
  \/ TimerFire
  \/ Tick

SpecReadme == Init /\ [][NextReadme]_vars

\* ------------------------------------------------------- claims: await-emit
\* The awaitEmit actions that got past the preconditions of _awaitEmit.
Awaits ==
  {i \in DOMAIN acts : acts[i].a.type = "awaitEmit" /\ acts[i].chan # 0}

\* The arrivals, after action i was dispatched, of its event on its namespace.
Arrivals(i) ==
  {j \in DOMAIN emits : /\ emits[j].chan = acts[i].chan
                        /\ emits[j].event = acts[i].a.eventType
                        /\ emits[j].after >= i}

\* The event arrived at a delay d < t.
Early(i) == \E j \in Arrivals(i) : emits[j].at - acts[i].at < acts[i].a.timeout
\* The event arrived at a delay d >= t.
Late(i) == \E j \in Arrivals(i) : emits[j].at - acts[i].at >= acts[i].a.timeout

Answers(i, err) == \E n \in DOMAIN calls[i] : calls[i][n].err = err
Deadline(i) == acts[i].at + acts[i].a.timeout
AwaitTimer(i) == \E tm \in timers : tm.kind = "await" /\ tm.k = UserK(i)
AwaitHeard(i) ==
  \E c \in DOMAIN socks : \E n \in DOMAIN socks[c].listeners :
    socks[c].listeners[n].kind = "await" /\ socks[c].listeners[n].k = UserK(i)

\* C1: an awaitEmit for E with timeout t on an open namespace succeeds iff E
\* arrives at a delay d < t, and fails with the timeout error iff it does not:
\* it is answered with the timeout error only once t has passed without E, and
\* it is still waiting only while t has not passed.
AwaitSucceedsIffEarly ==
  \A i \in Awaits :
    /\ Answers(i, "null") <=> Early(i)
    /\ Answers(i, "AwaitTimeout") => ~Early(i) /\ now >= Deadline(i)
    /\ calls[i] = <<>> => ~Early(i) /\ now <= Deadline(i)
    /\ \A n \in DOMAIN calls[i] : calls[i][n].err \in {"null", "AwaitTimeout"}

\* One awaitEmit has succeeded, another has timed out and its event came late.
AwaitWitness ==
  \E i, j \in Awaits :
    /\ Answers(i, "null")
    /\ Answers(j, "AwaitTimeout")
    /\ Late(j)

\* C2: when the awaited event arrives in time, the listener stores
\* {namespace, eventType, args as received} in socketEvent, whatever was there,
\* and calls back with a null error and that record.
AwaitRecordsEvent ==
  [][\A i \in DOMAIN calls :
       (/\ acts[i].a.type = "awaitEmit"
        /\ Len(calls'[i]) > Len(calls[i])
        /\ calls'[i][Len(calls'[i])].err = "null")
       => /\ Len(emits') = Len(emits) + 1
          /\ LET ev == [namespace |-> socks[acts[i].chan].ns,
                        eventType |-> acts[i].a.eventType,
                        args |-> emits'[Len(emits')].args]
             IN /\ socketEvent' = Some(ev)
                /\ calls'[i][Len(calls'[i])].data = Some(ev)]_vars

\* An awaitEmit has succeeded while an earlier event was still in socketEvent,
\* and socketEvent now holds the new event.
AwaitRecordWitness ==
  \E i, j \in Awaits :
    /\ i # j
    /\ Answers(i, "null") /\ Answers(j, "null")
    /\ acts[i].a.eventType # acts[j].a.eventType
    /\ socketEvent # Undefined
    /\ Len(emits) = 2
    /\ emits[1].event # emits[2].event
    /\ socketEvent[1].eventType = emits[2].event

\* C3: an awaitEmit calls back exactly once: while it waits both its timer and
\* its listener are in place, and once either has fired it has been called back
\* once and neither is left to fire.
AwaitCallsBackOnce ==
  \A i \in Awaits :
    \/ calls[i] = <<>> /\ AwaitTimer(i) /\ AwaitHeard(i)
    \/ Len(calls[i]) = 1 /\ ~AwaitTimer(i) /\ ~AwaitHeard(i)

\* Two awaits have ended, one by its event and one by its timer, and the event
\* of the timed-out one arrived afterwards.
AwaitOnceWitness ==
  \E i, j \in Awaits :
    /\ calls[i] # <<>> /\ calls[i][1].err = "null"
    /\ calls[j] # <<>> /\ calls[j][1].err = "AwaitTimeout"
    /\ Late(j)

\* ------------------------------------------- claims: the documented actions
Last(seq) == seq[Len(seq)]

\* C4: a confirmNoEmit on an open namespace is answered without error and
\* without data once its timeout has passed without the event, or with the
\* UnexpectedEmit error, the event being recorded in socketEvent, when the
\* event came before the timeout; it is answered in no other way.
ConfirmNoEmitIsInverse ==
  \A i \in DOMAIN acts :
    (acts[i].a.type = "confirmNoEmit" /\ acts[i].chan # 0)
    => \A n \in DOMAIN calls[i] :
         \/ /\ calls[i][n].err = "null"
            /\ calls[i][n].data = Undefined
            /\ ~Early(i)
            /\ now >= Deadline(i)
         \/ /\ calls[i][n].err = "UnexpectedEmit"
            /\ Early(i)

\* C5: a confirmNoMatchingEmit whose predicate always returns false is never
\* answered with an error, and is answered without data only once its timeout
\* has passed; one whose predicate always returns true fails only with
\* UnexpectedEmit, on an event that came in time.
ConfirmNoMatchingFollowsPredicate ==
  \A i \in DOMAIN acts :
    (acts[i].a.type = "confirmNoMatchingEmit" /\ acts[i].chan # 0)
    => \A n \in DOMAIN calls[i] :
         \/ /\ calls[i][n].err = "null"
            /\ calls[i][n].data = Undefined
            /\ now >= Deadline(i)
         \/ /\ acts[i].a.match = "true"
            /\ calls[i][n].err = "UnexpectedEmit"
            /\ Early(i)

\* C6: a connectAndAwaitEmit on a loaded page opens the namespace with the
\* listener for the event in place, so it is answered only with the event,
\* which is then the one recorded, or with a failure of the connection or a
\* timeout.
ConnectAndAwaitCaptures ==
  \A i \in DOMAIN acts :
    (acts[i].a.type = "connectAndAwaitEmit" /\ acts[i].paged)
    => \A n \in DOMAIN calls[i] :
         \/ /\ calls[i][n].err = "null"
            /\ calls[i][n].data # Undefined
            /\ calls[i][n].data[1].eventType = acts[i].a.eventType
         \/ calls[i][n].err \in {"ConnectError", "AwaitTimeout"}
                                \cup {"ConnectTimeout:" \o ns : ns \in Namespaces}

\* ------------------------------------------------- claims: pages and unload
\* The request r got its response in this step.
Responded(r) ==
  /\ r \in inflight
  /\ r \notin inflight'
  /\ IF r.k.kind = "user"
     THEN /\ Len(calls'[r.k.id]) = Len(calls[r.k.id]) + 1
          /\ Last(calls'[r.k.id]).err = "null"
     ELSE gstatic'[r.k.id].completed = gstatic[r.k.id].completed + 1

AsPage(result) ==
  [statusCode |-> result.statusCode, body |-> result.body,
   socketsDefined |-> FALSE, sockets |-> NoSockets]

\* The action dispatched in this step, if any.
Dispatched(i) == i = Len(acts') /\ Len(acts') = Len(acts) + 1

NewPageUnloadsOld ==
  [][\A r \in inflight :
       (Responded(r) /\ ~r.a.discardResponse /\ ~r.a.ajax)
       => /\ page # Undefined =>
               \A n \in Namespaces :
                 page[1].sockets[n] # 0
                 => socks'[page[1].sockets[n]].state = "disconnected"
          /\ socketEvent' = Undefined
          /\ page' # Undefined
          /\ page'[1].sockets = NoSockets
    ]_vars

\* C9: unload with a page disconnects the sockets of the page, deletes page,
\* ajax and socketEvent, leaves the cookies and the static cache alone and
\* calls back once, without an error.
UnloadClearsPage ==
  [][/\ \A i \in DOMAIN acts' :
          (Dispatched(i) /\ acts'[i].a.type = "unload" /\ page # Undefined)
          => /\ \A n \in Namespaces :
                  page[1].sockets[n] # 0
                  => socks'[page[1].sockets[n]].state = "disconnected"
             /\ page' = Undefined
             /\ ajax' = Undefined
             /\ socketEvent' = Undefined
             /\ jar' = jar
             /\ staticData' = staticData
             /\ calls'[i] = <<[err |-> "undefined", data |-> Undefined]>>
     /\ \A i \in DOMAIN acts :
          acts[i].a.type = "unload" => calls'[i] = calls[i]
    ]_vars

\* An unload has closed the socket of a page, with a cookie and a cached file
\* still held.
UnloadWitness ==
  \E i \in DOMAIN acts :
    /\ acts[i].a.type = "unload"
    /\ acts[i].chan # 0
    /\ socks[acts[i].chan].state = "disconnected"
    /\ Len(calls[i]) = 1
    /\ page = Undefined
    /\ jar # {}
    /\ staticData["/s.css"] # Undefined

\* C10: ajax, post, socket, emit or awaitEmit dispatched without a page is
\* answered with the error of its precondition, issues no I/O, and leaves the
\* session, the sockets, the timers and the requests as they were.
NeedsPage(a) ==
  \/ a.type \in {"ajax", "post", "socket", "emit", "awaitEmit"}
  \/ a.type = "http" /\ (a.ajax \/ a.method = "POST")

PreconditionErrors == {"NoPageAjax", "NoPagePost", "NoPageSocket", "NoPageEmit"}

NoPageNoEffect ==
  [][\A i \in DOMAIN acts' :
       (Dispatched(i) /\ NeedsPage(acts'[i].a) /\ page = Undefined)
       => /\ Len(calls'[i]) = 1
          /\ calls'[i][1].err \in PreconditionErrors
          /\ calls'[i][1].data = Undefined
          /\ net' = net
          /\ inflight' = inflight
          /\ timers' = timers
          /\ socks' = socks
          /\ <<page', ajax', socketEvent', staticData', jar'>> =
             <<page, ajax, socketEvent, staticData, jar>>
    ]_vars

\* Two actions of different types have failed for want of a page.
NoPageWitness ==
  \E i, j \in DOMAIN acts :
    /\ acts[i].a.type # acts[j].a.type
    /\ NeedsPage(acts[i].a) /\ ~acts[i].paged /\ calls[i] # <<>>
    /\ NeedsPage(acts[j].a) /\ ~acts[j].paged /\ calls[j] # <<>>
    /\ jar # {}

\* ------------------------------------------------ claims: the dispatcher
\* C11: an emit or awaitEmit dispatched on a page that has no socket for the
\* namespace, a page on which no socket was ever opened included, is answered
\* once with the NoSuchChannel error and nothing is thrown.
NoChannelFailsByCallback ==
  /\ thrown = <<>>
  /\ \A i \in DOMAIN acts :
       (acts[i].a.type \in {"emit", "awaitEmit"} /\ acts[i].paged /\ acts[i].chan = 0)
       => calls[i] = <<[err |-> "NoSuchChannel", data |-> Undefined]>>

\* The session and everything under way.
Everything ==
  <<page, ajax, socketEvent, staticData, jar, socks, timers, inflight, gstatic,
    net, thrown>>

\* C12: an action of a type the client has no method for is answered at once,
\* and once only, with the no-such-action-type error and without data; no I/O
\* is issued and the session and everything under way stay as they were.
UnknownKindFails ==
  [][/\ \A i \in DOMAIN acts' :
          (Dispatched(i) /\ Normalise(acts'[i].a).type \notin Handlers)
          => /\ calls'[i] = <<[err |-> "NoSuchActionType", data |-> Undefined]>>
             /\ Everything' = Everything
     /\ \A i \in DOMAIN acts :
          Normalise(acts[i].a).type \notin Handlers => calls'[i] = calls[i]
    ]_vars

\* An action of a type without a method was dispatched on a page with a socket
\* and cookies, and has been answered.
UnknownKindWitness ==
  \E i \in DOMAIN acts :
    /\ acts[i].a.type = "confirmNoEmit"
    /\ acts[i].chan # 0
    /\ Len(calls[i]) = 1
    /\ page # Undefined
    /\ jar # {}

\* C14: no action of a type of the README's list is answered with the
\* no-such-action-type error.
DocumentedKindsResolve ==
  \A i \in DOMAIN acts :
    Normalise(acts[i].a).type \in Vocabulary => ~Answers(i, "NoSuchActionType")

\* The values of the variables in the client state s.
StateOf(s) ==
  <<s.page, s.ajax, s.socketEvent, s.staticData, s.jar, s.socks, s.timers,
    s.inflight, s.gstatic, s.acts, s.calls, s.net, s.thrown, s.emits,
    s.script, s.scriptInProgress, s.runs, s.scalls, s.now>>

\* C13: dispatching the bare string s, or an object with the path s and no
\* type, leaves the client exactly where dispatching {type: "get", path: s}
\* leaves it: the same request under way for the same callback, the same I/O
\* issued, the same session.
ShortcutIsGet ==
  [][\A i \in DOMAIN acts' :
       (Dispatched(i) /\ (acts'[i].a.str \/ acts'[i].a.type = ""))
       => LET s0 == [Cur EXCEPT !.acts = acts', !.calls = Append(@, <<>>)]
          IN vars' = StateOf(action(s0, Get(acts'[i].a.path), UserK(i)))
    ]_vars

\* The string, the object without a type and the get action have each been
\* dispatched and answered with the same result, and a page is held.
ShortcutWitness ==
  \E i, j, l \in DOMAIN acts :
    /\ acts[i].a = Str("/a") /\ acts[j].a = NoType("/a") /\ acts[l].a = Get("/a")
    /\ Len(calls[i]) = 1 /\ calls[i][1].err = "null"
    /\ calls[j] = calls[i] /\ calls[l] = calls[i]
    /\ page = Some(AsPage(calls[i][1].data[1]))

\* ------------------------------------------------ claims: HTTP outcomes
\* The request r of the caller ended in this step, its callback being called.
Ended(r) ==
  /\ r \in inflight
  /\ r \notin inflight'
  /\ r.k.kind = "user"
  /\ Len(calls'[r.k.id]) > Len(calls[r.k.id])

\* C15: a response with a status other than 200 is no error: the callback is
\* called once with a null error and the result, and the result becomes ajax
\* or page as that of any response does.
NonOkIsResult ==
  [][\A r \in inflight :
       (/\ Ended(r)
        /\ Last(calls'[r.k.id]).data # Undefined
        /\ Last(calls'[r.k.id]).data[1].statusCode \notin {0, 200})
       => /\ Len(calls'[r.k.id]) = Len(calls[r.k.id]) + 1
          /\ Last(calls'[r.k.id]).err = "null"
          /\ LET result == Last(calls'[r.k.id]).data[1]
             IN IF r.a.discardResponse THEN page' = page /\ ajax' = ajax
                ELSE IF r.a.ajax THEN ajax' = Some(result) /\ page' = page
                ELSE page' = Some(AsPage(result)) /\ ajax' = ajax
    ]_vars

\* A 404 response is held as the page, another as the ajax result, and the
\* callbacks got them without an error.
NonOkWitness ==
  /\ page # Undefined /\ page[1].statusCode = 404
  /\ ajax # Undefined /\ ajax[1].statusCode = 404
  /\ \E i, j \in DOMAIN acts :
       /\ acts[i].a.type = "get" /\ acts[j].a.type = "ajax"
       /\ calls[i] = <<[err |-> "null", data |-> Some(HttpResult(404, <<"text">>))]>>
       /\ calls[j] = calls[i]

\* C16: when a request ends without a response the callback is called once
\* with the TransportUnavailable error naming the path of the action; no
\* request is issued again and page and ajax stay as they were.
NoResponseFails ==
  [][\A r \in inflight :
       (Ended(r) /\ Last(calls'[r.k.id]).data = Some(HttpResult(0, UndefBody)))
       => /\ Len(calls'[r.k.id]) = Len(calls[r.k.id]) + 1
          /\ Last(calls'[r.k.id]).err = "TransportUnavailable:" \o r.a.path
          /\ page' = page
          /\ ajax' = ajax
          /\ net' = net
          /\ inflight' = inflight \ {r}
    ]_vars

\* A get has failed for want of a response while a page and an ajax result
\* were held, and they are still held.
NoResponseWitness ==
  \E i \in DOMAIN acts :
    /\ acts[i].a.type = "get"
    /\ acts[i].paged
    /\ calls[i] = <<[err |-> "TransportUnavailable:/a",
                     data |-> Some(HttpResult(0, UndefBody))]>>
    /\ page # Undefined
    /\ ajax # Undefined

\* C17: a get of a path, an unload and a get of the same path again, the
\* server answering both gets alike, leave a page with the status and body of
\* the first and with no sockets, whatever sockets the first page had.
RoundTripPage ==
  \A i, j, l \in DOMAIN acts :
    (/\ i < j /\ j < l /\ l = Len(acts)
     /\ acts[i].a.type = "get" /\ acts[l].a = acts[i].a
     /\ acts[j].a.type = "unload"
     /\ calls[i] # <<>> /\ calls[i][1].err = "null"
     /\ calls[l] = calls[i])
    => page = Some(AsPage(calls[i][1].data[1]))

\* A page was loaded, a socket opened on it, the page unloaded with the socket
\* connected, and the page loaded again with the same response.
RoundTripWitness ==
  \E i, j, l \in DOMAIN acts :
    /\ i < j /\ j < l /\ l = Len(acts)
    /\ acts[i].a.type = "get" /\ acts[l].a = acts[i].a
    /\ acts[j].a.type = "unload" /\ acts[j].chan # 0
    /\ socks[acts[j].chan].state = "disconnected"
    /\ calls[i] # <<>> /\ calls[i][1].err = "null"
    /\ calls[l] = calls[i]
    /\ page # Undefined /\ page[1].sockets = NoSockets

\* ------------------------------------------------ claims: getStatic
\* C18: a getStatic with the cache on, dispatched next after a getStatic with
\* the cache on that ended without an error, issues no request and is answered
\* at once without an error.
StaticTwiceFetchesOnce ==
  [][\A i \in DOMAIN acts' :
       (/\ Dispatched(i) /\ i > 1
        /\ acts'[i].a.type = "getStatic" /\ acts'[i].a.cache
        /\ acts[i - 1].a.type = "getStatic" /\ acts[i - 1].a.cache
        /\ calls[i - 1] # <<>> /\ calls[i - 1][1].err \in NoError)
       => /\ net' = net
          /\ inflight' = inflight
          /\ calls'[i] = <<[err |-> "undefined", data |-> Undefined]>>
    ]_vars

\* The request r of a run of getStatic ended in this step without its file.
FetchFailed(r) ==
  /\ r \in inflight
  /\ r \notin inflight'
  /\ r.k.kind = "static"
  /\ gstatic'[r.k.id].completed = gstatic[r.k.id].completed

\* C19: the first request of a getStatic to fail hands its error to the
\* callback of the getStatic, which is called then and never again, whatever
\* the other requests of the run end with; the files the run has stored stay
\* in staticData.
StaticFailsFast ==
  [][/\ \A i \in DOMAIN acts :
          acts[i].a.type = "getStatic"
          => /\ Len(calls'[i]) <= 1
             /\ calls[i] # <<>> => calls'[i] = calls[i]
     /\ \A r \in inflight :
          FetchFailed(r)
          => LET id == gstatic[r.k.id].k.id
             IN /\ staticData' = staticData
                /\ calls[id] = <<>>
                   => calls'[id] = <<[err |-> "TransportUnavailable:" \o r.a.path,
                                      data |-> Undefined]>>
     /\ \A u \in Uris : staticData[u] # Undefined => staticData'[u] # Undefined
    ]_vars

\* Of the three requests of the one run of getStatic, that for /t.js failed
\* first, that for /w.png failed too and that for /s.css brought its file,
\* which is in staticData; the callback was called once.
StaticFailWitness ==
  \E i \in DOMAIN acts :
    /\ acts[i].a = GetStatic(TRUE)
    /\ Len(gstatic) = 1
    /\ inflight = {}
    /\ calls[i] = <<[err |-> "TransportUnavailable:/t.js", data |-> Undefined]>>
    /\ staticData["/s.css"] # Undefined
    /\ staticData["/w.png"] = Undefined

\* ------------------------------------------------ claims: the scripted client
\* The runs of runScript that have started a script and not come to its end.
ActiveRuns == {r \in DOMAIN runs : runs[r].running /\ ~runs[r].done}

\* C20: at most one script is under way at any time; a runScript called with
\* a callback while a script is under way is answered at once with the
\* ScriptAlreadyRunning error and starts nothing, no action is dispatched, no
\* timer set, and the script under way, its progress and the session stay as
\* they were.
ScriptRejectedWhileRunning ==
  [][/\ \A r \in DOMAIN runs' :
          (/\ r = Len(runs') /\ Len(runs') = Len(runs) + 1
           /\ ActiveRuns # {}
           /\ runs'[r].hasCb)
          => /\ scalls'[r] = <<"ScriptAlreadyRunning">>
             /\ ~runs'[r].running
             /\ runs'[r].log = <<>>
             /\ \A q \in DOMAIN runs : runs'[q] = runs[q] /\ scalls'[q] = scalls[q]
             /\ script' = script
             /\ scriptInProgress' = scriptInProgress
             /\ Everything' = Everything
     /\ Cardinality({r \in DOMAIN runs' : runs'[r].running /\ ~runs'[r].done}) <= 1
    ]_vars

\* The call number r of runScript is made in this step.
Started(r) == r = Len(runs') /\ Len(runs') = Len(runs) + 1

IsInvalid(sc) == ~sc.object \/ sc.name = Undefined \/ sc.actions = Undefined

InvalidErrors == {"InvalidScript", "InvalidScriptName", "InvalidScriptActions"}

Pending(r) ==
  Cardinality({x \in inflight : x.k = ScriptK(r)})
  + Cardinality({tm \in timers : tm.k = ScriptK(r)})
  + Cardinality({g \in DOMAIN gstatic :
                  /\ gstatic[g].k = ScriptK(r)
                  /\ ~gstatic[g].called
                  /\ gstatic[g].completed < gstatic[g].total})

\* C22: the actions of a script are dispatched in the order of the script, and
\* at no time do the actions of a script have more than one thing under way,
\* be it the pause before an action or the request, connection or wait of one.
ScriptOneAtATime ==
  \A r \in DOMAIN runs :
    /\ Pending(r) <= 1
    /\ \A n \in DOMAIN runs[r].log : runs[r].log[n].idx = n

\* A script of three actions has dispatched them all, the second after its
\* pause, and has come to its end without an error.
ScriptOrderWitness ==
  \E r \in DOMAIN runs :
    /\ runs[r].script.name = Some("s")
    /\ Len(runs[r].log) = 3
    /\ runs[r].log[2].at = runs[r].log[1].at + 1
    /\ scalls[r] = <<"null">>

\* C25: once the callback of runScript has been called with an error, no
\* action of that script is dispatched, no pause of it is started, and the
\* callback is not called again; it is called once at most.
ScriptAbortsOnError ==
  [][\A r \in DOMAIN runs :
       /\ Len(scalls'[r]) <= 1
       /\ (scalls[r] # <<>> /\ scalls[r][1] \notin NoError)
          => /\ runs'[r].log = runs[r].log
             /\ scalls'[r] = scalls[r]
             /\ \A tm \in timers' \ timers : tm.k # ScriptK(r)
    ]_vars

\* The action at position idx of the script of run r (a run made by the step
\* included), and the pause the delay policy gives it: that of the action if
\* it is a number or a function, else that of the script if it is one, else
\* none.
ItemOf(r, idx) == runs'[r].script.actions[1][idx]

Delay(r, idx) ==
  LET it == ItemOf(r, idx)
      sc == runs'[r].script
  IN IF it.sleep.kind \in {"number", "function"} THEN Some(it.sleep.n)
     ELSE IF sc.sleep.kind \in {"number", "function"} THEN Some(sc.sleep.n)
     ELSE Undefined

\* The timer of the pause before the action at idx of run r.
IsPause(tm, r, idx) == tm.kind = "sleep" /\ tm.k = ScriptK(r) /\ tm.chan = idx

\* C23: an action of a script whose turn has come is dispatched in the same
\* step when the delay policy gives it no pause; otherwise a timer is set for
\* the time of the pause, before the action is dispatched, and the action is
\* dispatched when that timer fires and not before; no pause is started for an
\* action that has been dispatched.  (An action with sleep: false is left to
\* C24.)
DelayPolicy ==
  [][\A r \in DOMAIN runs' :
       /\ \A tm \in timers' \ timers :
            (tm.kind = "sleep" /\ tm.k = ScriptK(r)
             /\ ItemOf(r, tm.chan).sleep.kind # "false")
            => /\ Delay(r, tm.chan) # Undefined
               /\ tm.deadline = now + Delay(r, tm.chan)[1]
               /\ \A n \in DOMAIN runs'[r].log : runs'[r].log[n].idx # tm.chan
       /\ \A n \in DOMAIN runs'[r].log :
            LET idx == runs'[r].log[n].idx
                fresh == r \in DOMAIN runs => n > Len(runs[r].log)
            IN (fresh /\ ItemOf(r, idx).sleep.kind # "false")
               => IF Delay(r, idx) = Undefined
                  THEN \A tm \in timers : ~IsPause(tm, r, idx)
                  ELSE \E tm \in timers \ timers' :
                         IsPause(tm, r, idx) /\ tm.deadline = now
    ]_vars

\* The script with a pause of 2 whose first action has a pause of 1 of its own
\* has dispatched its first action 1 after its start and its second 2 later.
DelayWitness ==
  \E r \in DOMAIN runs :
    /\ runs[r].script.name = Some("p")
    /\ Len(runs[r].log) = 2
    /\ runs[r].log[1].at = runs[r].at + 1
    /\ runs[r].log[2].at = runs[r].log[1].at + 2

\* C24: no pause is started for an action with sleep: false, whatever the
\* pause of its script.
FalseSleepIsNoDelay ==
  [][\A r \in DOMAIN runs' :
       \A tm \in timers' \ timers :
         (tm.kind = "sleep" /\ tm.k = ScriptK(r))
         => ItemOf(r, tm.chan).sleep.kind # "false"
    ]_vars

\* The callback of runScript for run r is called in this step.
CalledBack(r) ==
  Len(scalls'[r]) > (IF r \in DOMAIN runs THEN Len(scalls[r]) ELSE 0)

\* The session after clear(), with no script and no marker.
Cleared ==
  /\ page = Undefined
  /\ ajax = Undefined
  /\ socketEvent = Undefined
  /\ staticData = [u \in Uris |-> Undefined]
  /\ jar = {}
  /\ script = Undefined
  /\ ~scriptInProgress

\* C26: when the callback of a script that was started is called, with or
\* without an error, the session is cleared and the marker of a script in
\* progress is gone; and a runScript called with a valid script while the
\* marker is gone is accepted.
ScriptEndsCleared ==
  [][\A r \in DOMAIN runs' :
       /\ (runs'[r].running /\ CalledBack(r)) => Cleared'
       /\ (Started(r) /\ ~scriptInProgress /\ ~IsInvalid(runs'[r].script))
          => runs'[r].running
    ]_vars

\* A script failed for a request that ended without a response, its callback
\* was called once, with that error, and the runScript called after it was
\* accepted.
ScriptFailedWitness ==
  \E q, r \in DOMAIN runs :
    /\ q < r
    /\ Len(scalls[q]) = 1
    /\ scalls[q][1] = "TransportUnavailable:/a"
    /\ runs[q].at > 0
    /\ runs[r].running
    /\ runs[r].at > runs[q].at

\* A valid script with an empty array of actions.
IsEmpty(sc) == ~IsInvalid(sc) /\ sc.actions[1] = <<>>

\* C27: a runScript called, with a callback and with no script in progress,
\* with a valid script that has no actions calls back in the same step, once,
\* without an error; nothing is dispatched, requested or timed, the session is
\* cleared and no script is marked as in progress; and the callback is not
\* called again later.
EmptyScriptCompletes ==
  [][/\ \A r \in DOMAIN runs' :
          (/\ Started(r)
           /\ IsEmpty(runs'[r].script)
           /\ ~scriptInProgress
           /\ runs'[r].hasCb)
          => /\ scalls'[r] = <<"undefined">>
             /\ runs'[r].running
             /\ runs'[r].done
             /\ runs'[r].log = <<>>
             /\ acts' = acts
             /\ net' = net
             /\ timers' = timers
             /\ inflight' = inflight
             /\ thrown' = thrown
             /\ Cleared'
     /\ \A r \in DOMAIN runs :
          IsEmpty(runs[r].script)
          => scalls'[r] = scalls[r] /\ runs'[r].log = <<>>
    ]_vars

\* The script without actions was run, not as the first thing the caller did;
\* it has called back once without an error, and the script run next has been
\* accepted.
EmptyScriptWitness ==
  \E q, r \in DOMAIN runs :
    /\ r = q + 1
    /\ IsEmpty(runs[q].script)
    /\ scalls[q] = <<"undefined">>
    /\ runs[q].at > 0
    /\ runs[r].running

\* C28: every action that is dispatched calls back in the end, whether or not
\* the response, the connect event or the event it waits for ever arrives.
EveryActionCallsBack ==
  \A i \in 1..(2 + MaxActions) :
    (i \in DOMAIN calls) ~> (i \in DOMAIN calls /\ calls[i] # <<>>)

\* C29: the timer of a connect or of an await is set for the timeout of the
\* action if it has one, and for the default timeout of the session if it has
\* none.
EffectiveTimeout ==
  [][\A i \in DOMAIN acts' :
       Dispatched(i)
       => \A tm \in timers' \ timers :
            tm.k = UserK(i)
            => tm.deadline = now + (IF acts'[i].a.timeout # 0
                                    THEN acts'[i].a.timeout
                                    ELSE DefaultTimeout)
    ]_vars

\* The listeners and the timer _socket has set for action i and not taken away.
ConnectLeftovers(i) ==
  Cardinality({tm \in timers : tm.kind = "connect" /\ tm.k = UserK(i)})
  + Cardinality({x \in {<<c, n>> : c \in DOMAIN socks, n \in 1..2} :
                  /\ x[2] <= Len(socks[x[1]].listeners)
                  /\ socks[x[1]].listeners[x[2]].kind = "conn"
                  /\ socks[x[1]].listeners[x[2]].k = UserK(i)})

\* C30: a connect that does not complete at once is called back once at most,
\* by its connect event, its error event or its timeout; once it has been
\* called back its timer is gone and none of its listeners is left on the
\* namespace.
ConnectResolvesOnce ==
  \A i \in DOMAIN acts :
    (Normalise(acts[i].a).type = "socket" /\ ~acts[i].a.sync)
    => /\ Len(calls[i]) <= 1
       /\ calls[i] # <<>> => ConnectLeftovers(i) = 0

\* The namespace action i asks for.
NamespaceOf(i) ==
  IF acts[i].a.namespace = "" THEN DefaultNamespace ELSE acts[i].a.namespace

\* C31: when the timer of a connect fires, neither the connect event nor the
\* error event having come, the action is called back, for the first time,
\* with the ConnectTimeout error that names its namespace and with no data,
\* and neither of its listeners is left on the namespace.
ConnectTimesOut ==
  [][\A i \in DOMAIN acts :
       \A tm \in timers \ timers' :
         (tm.kind = "connect" /\ tm.k = UserK(i) /\ tm.deadline <= now)
         => /\ calls[i] = <<>>
            /\ calls'[i] = <<[err |-> "ConnectTimeout:" \o NamespaceOf(i),
                              data |-> Undefined]>>
            /\ ConnectLeftovers(i)' = 0
    ]_vars

\* A connect to /chat and a connect to the default namespace have both timed
\* out, each with the error of its namespace.
ConnectTimeoutWitness ==
  \E i, j \in DOMAIN acts :
    /\ calls[i] # <<>> /\ calls[i][1].err = "ConnectTimeout:/chat"
    /\ calls[j] # <<>> /\ calls[j][1].err = "ConnectTimeout:"
    /\ ConnectLeftovers(i) = 0
    /\ ConnectLeftovers(j) = 0

\* Action j asks for a page that the client keeps.
IsLoad(j) ==
  LET a == Normalise(acts'[j].a)
  IN /\ a.type \in {"get", "post", "http"}
     /\ ~a.ajax
     /\ ~a.discardResponse

\* For a caller that waits for each callback: no connect has been dispatched
\* since the page that is current when action i is dispatched was asked for.
FirstOnPage(i) ==
  \A j \in 1..(i - 1) :
    Normalise(acts'[j].a).type = "socket"
    => \E l \in (j + 1)..(i - 1) : IsLoad(l)

\* C32: a connect dispatched with a page loaded opens its namespace with force
\* new connection set if and only if it is the first connect since that page
\* was loaded, and with auto connect not set, whatever socketConfig the action
\* brings.
ForceNewIffFirst ==
  [][\A i \in DOMAIN acts' :
       (/\ Dispatched(i)
        /\ Normalise(acts'[i].a).type = "socket"
        /\ page # Undefined)
       => /\ Len(socks') = Len(socks) + 1
          /\ socks'[Len(socks')].forceNew = FirstOnPage(i)
          /\ socks'[Len(socks')].autoConnect = FALSE
          /\ net' = Append(net, NetOp("connect", acts'[i].a.namespace,
                                       FirstOnPage(i)))
    ]_vars

\* Two namespaces were opened on one page, the second by an action that asked
\* for a new connection, and a third on the page loaded after that: the first
\* and the third were forced to a new connection, the second was not.
ForceNewWitness ==
  /\ Len(socks) = 3
  /\ Len(acts) = 5
  /\ socks[1].forceNew /\ socks[1].ns = ""
  /\ ~socks[2].forceNew /\ socks[2].ns = "/chat"
  /\ acts[3].a.socketConfig # <<>>
  /\ acts[4].a.type = "get"
  /\ socks[3].forceNew
  /\ \A c \in DOMAIN socks : ~socks[c].autoConnect

\* C33: a namespace is recorded in the map of the page only when its connect
\* succeeds: a connect answered with ConnectTimeout, no other connect to its
\* namespace having been dispatched, has left no entry for the namespace.
TimedOutNotRecorded ==
  \A i \in DOMAIN acts :
    (/\ page # Undefined
     /\ calls[i] # <<>>
     /\ calls[i][1].err = "ConnectTimeout:" \o NamespaceOf(i)
     /\ \A j \in DOMAIN acts :
          (j # i /\ Normalise(acts[j].a).type = "socket")
          => NamespaceOf(j) # NamespaceOf(i))
    => page[1].sockets[NamespaceOf(i)] = 0

\* The listeners that awaits have on socket c.
AwaitListeners(c) == SelectSeq(socks[c].listeners, LAMBDA l : l.kind = "await")

\* C34: once an await has been called back, with its event or with an error,
\* no socket has a listener of that action; so a socket never has more
\* listeners of awaits than there are awaits that still wait.
NoListenerLeft ==
  /\ \A i \in DOMAIN acts :
       calls[i] # <<>>
       => \A c \in DOMAIN socks :
            \A n \in DOMAIN AwaitListeners(c) : AwaitListeners(c)[n].k # UserK(i)
  /\ \A c \in DOMAIN socks :
       Len(AwaitListeners(c)) <= Cardinality(Unanswered \cap Awaits)

\* As many awaits as the caller may dispatch have ended on one socket, by
\* their event and by their timer, and the socket has no listener of an await.
NoListenerWitness ==
  /\ Cardinality(Awaits) = MaxActions
  /\ \A i \in Awaits : calls[i] # <<>> /\ acts[i].chan = 1
  /\ \E i \in Awaits : calls[i][1].err = "null"
  /\ \E i \in Awaits : calls[i][1].err = "AwaitTimeout"
  /\ AwaitListeners(1) = <<>>

\* The references of the body that getStatic is to fetch: local paths with one
\* of the extensions, not in staticData.
Candidates(body) ==
  SelectSeq(body, LAMBDA u : /\ u \in Uris
                             /\ ~IsAbsolute(u)
                             /\ HasExtension(u)
                             /\ staticData[u] = Undefined)

RECURSIVE FirstOccurrences(_, _)
\* The elements of seq from position i on that no earlier position holds.
FirstOccurrences(seq, i) ==
  IF i > Len(seq) THEN <<>>
  ELSE IF \E j \in 1..(i - 1) : seq[j] = seq[i]
       THEN FirstOccurrences(seq, i + 1)
       ELSE <<seq[i]>> \o FirstOccurrences(seq, i + 1)

\* C35: a getStatic dispatched on a loaded page issues one request for each
\* distinct reference it is to fetch, in the order in which the references
\* first occur in the body of the page.
StaticInFirstOrder ==
  [][\A i \in DOMAIN acts' :
       (/\ Dispatched(i)
        /\ acts'[i].a.type = "getStatic"
        /\ page # Undefined)
       => LET want == FirstOccurrences(Candidates(page[1].body), 1)
          IN net' = net \o [n \in DOMAIN want |-> NetOp("request", want[n], FALSE)]
    ]_vars

\* C36: a path that has a body in staticData keeps that body, whatever the
\* client does short of clear().
StaticCacheAppendOnly ==
  [][\A u \in Uris :
       staticData[u] # Undefined => staticData'[u] = staticData[u]
    ]_vars

\* C39: the client has the result of an AJAX request only while it has a page.
AjaxOnlyWithPage == ajax # Undefined => page # Undefined

\* C40: once a run of getStatic has called back, a request of that run that
\* ends leaves the session as it is: page, ajax, socketEvent, cookies apart
\* from those of the response, and staticData.
StaticQuietAfterCallback ==
  [][\A r \in inflight :
       (/\ r \notin inflight'
        /\ r.k.kind = "static"
        /\ calls[gstatic[r.k.id].k.id] # <<>>)
       => /\ staticData' = staticData
          /\ page' = page
          /\ ajax' = ajax
          /\ socketEvent' = socketEvent
    ]_vars

\* C37: no action is called back more than once, whatever its kind and
\* whatever becomes of its request or of its socket.
CallbackAtMostOnce == \A i \in DOMAIN calls : Len(calls[i]) <= 1

\* C38: when the callback of a script that was started is called, none of the
\* sockets is connected; the scripts are all that opens sockets here.
ScriptLeavesNoSocket ==
  [][\A r \in DOMAIN runs' :
       (runs'[r].running /\ CalledBack(r))
       => \A c \in DOMAIN socks' : socks'[c].state # "connected"
    ]_vars

====
